---- MODULE Spec2Model ----
(***************************************************************************)
(* Sync Engine of the Azure Updates MCP server: performSync and its        *)
(* transaction (src/src/services/sync.service.ts) over the record store    *)
(* and the singleton sync checkpoint, with the remote feed and the local   *)
(* clock as environment.                                                    *)
(*                                                                         *)
(* Time.  The feed stamps records with 7 fractional digits                 *)
(* ('2025-01-01T00:00:00.0000000Z'); Date#toISOString and Date#getTime     *)
(* have millisecond precision.  A feed stamp is a natural number counting  *)
(* half milliseconds, so stamp t lies in millisecond t \div 2 and an odd   *)
(* stamp has a non-zero sub-millisecond part.  A timestamp string is a     *)
(* record [t, short]: short = FALSE is the feed's 7-digit form, short =    *)
(* TRUE the 3-digit form toISOString prints (t is then even).              *)
(***************************************************************************)
EXTENDS Integers, Sequences, FiniteSets, TLC

\* ------------------------------------------------------------------ bounds
MaxStamp == 4
MaxNow == 2
NumProcs == 2

\* The feed holds two records, in this order.
Ids == {1, 2}
Procs == 1..NumProcs
Stamps == 1..MaxStamp
\* created stamps the feed publishes: before every modified stamp, or after
\* all but the last (a record whose modified precedes its created).
CreatedStamps == {1, MaxStamp}
ClockTimes == 1..MaxNow

\* ------------------------------------------------------- timestamp strings
Long(t) == [t |-> t, short |-> FALSE]

\* Date#toISOString of a millisecond clock value: 'YYYY-MM-DDTHH:mm:ss.sssZ'.
ToISOString(ms) == [t |-> 2 * ms, short |-> TRUE]

\* new Date(s).getTime(): parsing keeps milliseconds and drops the rest.
GetTime(s) == s.t \div 2

\* JavaScript's a > b on two timestamp strings: code-unit order.  The strings
\* agree in layout up to the third fractional digit; there the 3-digit form
\* has 'Z' where the 7-digit form has a digit, and 'Z' sorts after any digit.
StrGT(a, b) ==
    IF GetTime(a) # GetTime(b) THEN GetTime(a) > GetTime(b)
    ELSE IF a.short # b.short THEN a.short
    ELSE IF a.short THEN FALSE
    ELSE a.t > b.t

INITIAL_SYNC_CHECKPOINT == Long(0)

\* An absent (undefined) timestamp string, and an absent retentionStartDate.
NoDate == [t |-> 0 - 1, short |-> TRUE]
Undefined == 0 - 1

\* retentionStartDate 'YYYY-MM-DD' is a day; the model names it by the
\* millisecond its midnight falls on.
RetentionDates == ClockTimes

\* `${retentionStartDate}T00:00:00.000Z`
RetentionModifiedSince(retentionStartDate) ==
    IF retentionStartDate = Undefined THEN NoDate ELSE ToISOString(retentionStartDate)

Max2(a, b) == IF a >= b THEN a ELSE b

\* ------------------------------------------------------------ remote feed
\* What the feed publishes for record i in the version stamped m.  The content
\* of a record changes with every modification.
NULL == "null"

Title(i, m) == IF m % 2 = 0 THEN "Azure update" ELSE "Azure update (revised)"

Description(i, m) ==
    CASE m % 3 = 0 -> ""
      [] m % 3 = 1 -> "<p>Generally <strong>available</strong></p>"
      [] OTHER     -> "   "

Status(i, m) == IF m % 2 = 0 THEN "Active" ELSE NULL

TagsOf(i, m) == IF m % 2 = 0 THEN {"Security", "Compliance"} ELSE {"Security"}

CategoriesOf(i, m) == IF m % 2 = 0 THEN {"Compute"} ELSE {"Compute", "Databases"}

ProductsOf(i, m) == IF m % 3 = 0 THEN {} ELSE {"Azure VM"}

\* A calendar date 'YYYY-MM-DD'; d = 0 stands for the month form 'YYYY-MM'.
Date(y, m, d) == [y |-> y, m |-> m, d |-> d]

\* Availability dates are persisted normalized to the first day of the month.
\* A ring may be absent, and it may repeat.
AvailabilitiesOf(i, m) ==
    CASE m % 3 = 0 -> << >>
      [] m % 4 = 0 -> << [ring |-> "Retirement", date |-> Date(2026, 3, 1)],
                        [ring |-> "Retirement", date |-> Date(2026, 6, 1)] >>
      [] m % 2 = 0 -> << [ring |-> "Preview", date |-> Date(2025, 1, 1)],
                        [ring |-> "Retirement", date |-> Date(2026, 3, 1)] >>
      [] OTHER     -> << [ring |-> "Retirement", date |-> Date(2026, 6, 1)] >>

NoRec == [created |-> 0, modified |-> 0]

\* AzureUpdate, as fetchAzureUpdates hands it to the sync service.
AzureUpdate(i, r) ==
    [id |-> i,
     title |-> Title(i, r.modified),
     description |-> Description(i, r.modified),
     status |-> Status(i, r.modified),
     locale |-> NULL,
     created |-> Long(r.created),
     modified |-> Long(r.modified),
     tags |-> TagsOf(i, r.modified),
     productCategories |-> CategoriesOf(i, r.modified),
     products |-> ProductsOf(i, r.modified),
     availabilities |-> AvailabilitiesOf(i, r.modified)]

RECURSIVE FeedPage(_, _, _)
\* The published records from id i upward whose modified stamp is strictly
\* after modifiedSince (OData 'modified gt', compared as instants), in id order.
FeedPage(f, modifiedSince, i) ==
    IF i \notin Ids THEN << >>
    ELSE LET rest == FeedPage(f, modifiedSince, i + 1)
         IN  IF f[i] # NoRec /\ (modifiedSince = NoDate \/ f[i].modified > modifiedSince.t)
             THEN << AzureUpdate(i, f[i]) >> \o rest
             ELSE rest

\* fetchAzureUpdates({modifiedSince, includeCount}) when the request succeeds.
FetchAzureUpdates(f, modifiedSince) == FeedPage(f, modifiedSince, 1)

FetchErrors == {"Network error", "HTTP 500"}

\* ----------------------------------------------------------- record store
NoRow == [title |-> NULL]

EmptyDb ==
    [updates      |-> [i \in Ids |-> NoRow],
     tags         |-> [i \in Ids |-> {}],
     categories   |-> [i \in Ids |-> {}],
     products     |-> [i \in Ids |-> {}],
     availabilities |-> [i \in Ids |-> << >>],
     fts          |-> [i \in Ids |-> NoRow]]

\* A store without the triggers on azure_updates: the index is left as it was.
NoFtsTrigger(d, id) == d

\* The AFTER INSERT / AFTER UPDATE triggers on azure_updates: the index entry
\* of the written row is replaced by its title and description_md, inside the
\* statement that wrote the row.
FtsTrigger(d, id) ==
    [d EXCEPT !.fts[id] = [title |-> d.updates[id].title,
                          description_md |-> d.updates[id].description_md]]

\* chk_dates: modified >= created, both TEXT in the feed's 7-digit form.
ChkDates(row) == ~StrGT(row.created, row.modified)

\* A plain INSERT: fails on an id that is already stored.
InsertUpdate(d, row) ==
    IF row.title = NULL \/ ~ChkDates(row) \/ d.updates[row.id] # NoRow
    THEN [ok |-> FALSE, db |-> d]
    ELSE [ok |-> TRUE,
          db |-> FtsTrigger(
                   [d EXCEPT !.updates[row.id] =
                     [title |-> row.title,
                      description_html |-> row.description_html,
                      description_md |-> row.description_md,
                      status |-> row.status,
                      locale |-> row.locale,
                      created |-> row.created,
                      modified |-> row.modified,
                      metadata |-> row.metadata]],
                   row.id)]

\* INSERT ... ON CONFLICT(id) DO UPDATE: the row is written whole, or the
\* statement fails on a constraint.
UpsertUpdate(d, row) ==
    IF row.title = NULL \/ ~ChkDates(row)
    THEN [ok |-> FALSE, db |-> d]
    ELSE [ok |-> TRUE,
          db |-> FtsTrigger(
                   [d EXCEPT !.updates[row.id] =
                     [title |-> row.title,
                      description_html |-> row.description_html,
                      description_md |-> row.description_md,
                      status |-> row.status,
                      locale |-> row.locale,
                      created |-> row.created,
                      modified |-> row.modified,
                      metadata |-> row.metadata]],
                   row.id)]

\* DELETE the update's rows of the side table, then INSERT the given ones.
ReplaceUpdateTags(d, id, tags) == [d EXCEPT !.tags[id] = tags]
ReplaceUpdateCategories(d, id, categories) == [d EXCEPT !.categories[id] = categories]
ReplaceUpdateProducts(d, id, products) == [d EXCEPT !.products[id] = products]
ReplaceUpdateAvailabilities(d, id, availabilities) ==
    [d EXCEPT !.availabilities[id] = availabilities]

GetUpdateCount(d) == Cardinality({i \in Ids : d.updates[i] # NoRow})

\* ------------------------------------------------------------- checkpoint
NoError == [msg |-> "", id |-> 0]
Err(msg) == [msg |-> msg, id |-> 0]

SeedCheckpoint ==
    [lastSync |-> INITIAL_SYNC_CHECKPOINT, syncStatus |-> "success",
     recordCount |-> 0, errorMessage |-> NoError]

\* startSync as an unconditional UPDATE.
StartSyncUnconditional(c) == [ok |-> TRUE, cp |-> [c EXCEPT !.syncStatus = "in_progress"]]

\* UPDATE sync_checkpoints SET sync_status = 'in_progress'
\*   WHERE id = 1 AND sync_status != 'in_progress'; true iff a row changed.
StartSync(c) ==
    IF c.syncStatus # "in_progress"
    THEN [ok |-> TRUE, cp |-> [c EXCEPT !.syncStatus = "in_progress"]]
    ELSE [ok |-> FALSE, cp |-> c]

CompleteSyncSuccess(c, lastSync, recordCount) ==
    [lastSync |-> lastSync, syncStatus |-> "success",
     recordCount |-> recordCount, errorMessage |-> NoError]

CompleteSyncFailure(c, errorMessage) ==
    [c EXCEPT !.syncStatus = "failed", !.errorMessage = errorMessage]

\* ------------------------------------------------------- content normalizer
\* convertHtmlToMarkdown on the descriptions the feed publishes: null for an
\* empty or blank input, otherwise the Turndown rendering, trimmed.
ConvertHtmlToMarkdown(html) ==
    CASE html = "" -> NULL
      [] html = "   " -> NULL
      [] html = "<p>Generally <strong>available</strong></p>" -> "Generally **available**"
      [] OTHER -> html

\* ------------------------------------------------------------ sync service
FilterUpdatesByRetentionDate(updates, retentionStartDate) ==
    LET cutoffTime == GetTime(ToISOString(retentionStartDate))
        Keep(update) ==
            LET modifiedTime == GetTime(update.modified)
                createdTime == GetTime(update.created)
                relevantTime == Max2(modifiedTime, createdTime)
            IN  relevantTime >= cutoffTime
    IN  SelectSeq(updates, Keep)

\* The loop body with the main row written and the side tables left alone.
SyncOneUpdateRowOnly(d, update) ==
    LET up == UpsertUpdate(d,
                [id |-> update.id,
                 title |-> update.title,
                 description_html |-> update.description,
                 description_md |-> NULL,
                 status |-> update.status,
                 locale |-> update.locale,
                 created |-> update.created,
                 modified |-> update.modified,
                 metadata |-> NULL])
    IN  [ok |-> up.ok, db |-> up.db]

\* One pass of the loop body of the transaction function for `update`.
SyncOneUpdate(d, update) ==
    LET descriptionMarkdown ==
            IF update.description # "" THEN ConvertHtmlToMarkdown(update.description)
            ELSE NULL
        up == UpsertUpdate(d,
                [id |-> update.id,
                 title |-> update.title,
                 description_html |-> update.description,
                 description_md |-> descriptionMarkdown,
                 status |-> update.status,
                 locale |-> update.locale,
                 created |-> update.created,
                 modified |-> update.modified,
                 metadata |-> NULL])
    IN  IF ~up.ok
        THEN [ok |-> FALSE, db |-> up.db]
        ELSE [ok |-> TRUE,
              db |-> ReplaceUpdateAvailabilities(
                       ReplaceUpdateProducts(
                         ReplaceUpdateCategories(
                           ReplaceUpdateTags(up.db, update.id, update.tags),
                           update.id, update.productCategories),
                         update.id, update.products),
                       update.id, update.availabilities)]

RECURSIVE SyncLoop(_, _, _)
\* for (const update of updatesToSync) from position k on; stops at the first
\* record that throws, with the writes made so far still in d.
SyncLoop(d, updatesToSync, k) ==
    IF k > Len(updatesToSync)
    THEN [ok |-> TRUE, db |-> d, processed |-> k - 1, failedId |-> 0]
    ELSE LET one == SyncOneUpdate(d, updatesToSync[k])
         IN  IF one.ok
             THEN SyncLoop(one.db, updatesToSync, k + 1)
             ELSE [ok |-> FALSE, db |-> one.db, processed |-> k - 1,
                   failedId |-> updatesToSync[k].id]

\* The transaction without its rollback: what a plain loop would leave behind.
SyncUpdatesWithoutRollback(d, updates) ==
    LET run == SyncLoop(d, updates, 1)
    IN  IF run.ok
        THEN [ok |-> TRUE, db |-> run.db, recordsProcessed |-> run.processed,
              error |-> NoError]
        ELSE [ok |-> FALSE, db |-> run.db, recordsProcessed |-> 0,
              error |-> [msg |-> "Failed to sync update", id |-> run.failedId]]

\* db.transaction(...)(updates): commits the loop's writes when it returns and
\* rolls every one of them back when it throws.
SyncUpdatesInTransaction(d, updates) ==
    LET run == SyncLoop(d, updates, 1)
    IN  IF run.ok
        THEN [ok |-> TRUE, db |-> run.db, recordsProcessed |-> run.processed,
              error |-> NoError]
        ELSE [ok |-> FALSE, db |-> d, recordsProcessed |-> 0,
              error |-> [msg |-> "Failed to sync update", id |-> run.failedId]]

RECURSIVE LatestModified(_, _, _)
\* updates.reduce((latest, u) => u.modified > latest ? u.modified : latest, lastSync)
LatestModified(updates, k, latest) ==
    IF k > Len(updates) THEN latest
    ELSE LatestModified(updates, k + 1,
            IF StrGT(updates[k].modified, latest) THEN updates[k].modified ELSE latest)

SyncResult(success, processed, inserted, updated, error) ==
    [success |-> success, recordsProcessed |-> processed,
     recordsInserted |-> inserted, recordsUpdated |-> updated, error |-> error]

\* performSync going on whatever startSync answered.
LockAcquiredAlways(guard) == TRUE

\* const lockAcquired = startSync(db); if (!lockAcquired) return ...
LockAcquired(guard) == guard.ok

\* const lastSync = checkpoint?.lastSync || INITIAL_SYNC_CHECKPOINT
LastSync(c) == c.lastSync

IsInitialSync(lastSync) == lastSync = INITIAL_SYNC_CHECKPOINT

\* The floor taken from the watermark in either mode.
ModifiedSinceLastSync(isInitialSync, retentionStartDate, lastSync) == lastSync

\* modifiedSince: isInitialSync ? retentionModifiedSince : lastSync
ModifiedSince(isInitialSync, retentionStartDate, lastSync) ==
    IF isInitialSync THEN RetentionModifiedSince(retentionStartDate) ELSE lastSync

\* const updates = retentionStartDate ? filterUpdatesByRetentionDate(...) : allUpdates
SurvivingUpdates(allUpdates, retentionStartDate) ==
    IF retentionStartDate # Undefined
    THEN FilterUpdatesByRetentionDate(allUpdates, retentionStartDate)
    ELSE allUpdates

\* The lastSync argument of completeSyncSuccess on the no-updates path:
\* new Date().toISOString().
NoUpdatesLastSync(clock, lastSync) == ToISOString(clock)

\* The lastSync argument of completeSyncSuccess after the transaction.
NewLastSync(updates, lastSync) == LatestModified(updates, 1, lastSync)

RecordsInserted(recordCountAfter, recordCountBefore) ==
    Max2(0, recordCountAfter - recordCountBefore)

AlreadyInProgress == SyncResult(FALSE, 0, 0, 0, Err("Sync already in progress"))

NoUpdatesResult == SyncResult(TRUE, 0, 0, 0, NoError)

\* A catch block that drops the error message from its result.
CatchResultWithoutError(error) == SyncResult(FALSE, 0, 0, 0, NoError)

\* The SyncResult the catch block returns.
CatchResult(error) == SyncResult(FALSE, 0, 0, 0, error)

StoreError == Err("database is not open")

Rejected == SyncResult(FALSE, 0, 0, 0, StoreError)

\* catch (error) { completeSyncFailure(db, err.message); return {...} }:
\* the promise rejects when completeSyncFailure itself throws.
Catch(d, c, error, faults) ==
    IF "completeSyncFailure" \in faults
    THEN [db |-> d, checkpoint |-> c, settled |-> "rejected", result |-> Rejected]
    ELSE [db |-> d, checkpoint |-> CompleteSyncFailure(c, error),
          settled |-> "resolved", result |-> CatchResult(error)]

IdleFrame ==
    [retentionStartDate |-> Undefined, lastSync |-> NoDate, recordCountBefore |-> 0,
     isInitialSync |-> FALSE, modifiedSince |-> NoDate, includeCount |-> FALSE]

\* performSync from its entry to the await of fetchAzureUpdates.  `awaiting`
\* tells whether the request went out.
BeforeFetch(d, c, retentionStartDate, faults) ==
    IF "startSync" \in faults
    THEN [checkpoint |-> c, awaiting |-> FALSE, frame |-> IdleFrame,
          settled |-> "rejected", result |-> Rejected]
    ELSE
    LET guard == StartSync(c)
    IN  IF ~LockAcquired(guard)
        THEN [checkpoint |-> guard.cp, awaiting |-> FALSE, frame |-> IdleFrame,
              settled |-> "resolved", result |-> AlreadyInProgress]
        ELSE IF "getSyncCheckpoint" \in faults
        THEN LET caught == Catch(d, guard.cp, StoreError, faults)
             IN  [checkpoint |-> caught.checkpoint, awaiting |-> FALSE,
                  frame |-> IdleFrame, settled |-> caught.settled,
                  result |-> caught.result]
        ELSE
        LET lastSync == LastSync(guard.cp)
            isInitialSync == IsInitialSync(lastSync)
        IN  [checkpoint |-> guard.cp, awaiting |-> TRUE,
             frame |-> [retentionStartDate |-> retentionStartDate,
                        lastSync |-> lastSync,
                        recordCountBefore |-> GetUpdateCount(d),
                        isInitialSync |-> isInitialSync,
                        modifiedSince |->
                            ModifiedSince(isInitialSync, retentionStartDate, lastSync),
                        includeCount |-> isInitialSync],
             settled |-> "none", result |-> Rejected]

\* performSync from the point where fetchAzureUpdates resolved with allUpdates.
AfterFetch(d, c, fr, clock, allUpdates, faults) ==
    LET updates == SurvivingUpdates(allUpdates, fr.retentionStartDate)
    IN  IF Len(updates) = 0
        THEN IF "completeSyncSuccess" \in faults
             THEN Catch(d, c, StoreError, faults)
             ELSE [db |-> d,
                   checkpoint |-> CompleteSyncSuccess(c,
                        NoUpdatesLastSync(clock, fr.lastSync), fr.recordCountBefore),
                   settled |-> "resolved", result |-> NoUpdatesResult]
        ELSE IF "transaction" \in faults
        THEN Catch(d, c, StoreError, faults)
        ELSE
        LET tx == SyncUpdatesInTransaction(d, updates)
            recordCountAfter == GetUpdateCount(tx.db)
            recordsInserted == RecordsInserted(recordCountAfter, fr.recordCountBefore)
            recordsUpdated == tx.recordsProcessed - recordsInserted
        IN  IF ~tx.ok
            THEN Catch(tx.db, c, tx.error, faults)
            ELSE IF "completeSyncSuccess" \in faults
            THEN Catch(tx.db, c, StoreError, faults)
            ELSE [db |-> tx.db,
                  checkpoint |-> CompleteSyncSuccess(c,
                        NewLastSync(updates, fr.lastSync), recordCountAfter),
                  settled |-> "resolved",
                  result |-> SyncResult(TRUE, tx.recordsProcessed, recordsInserted,
                                        recordsUpdated, NoError)]

\* getSyncCheckpoint when the sync_checkpoints table has no row.
NoCheckpoint == [syncStatus |-> "missing"]

\* The staleness test alone, without the test for a first sync.
IsStale(c, clock, staleness) ==
    c # NoCheckpoint /\ clock - GetTime(c.lastSync) >= staleness

\* isSyncNeeded(db, stalenessHours) at local time `clock`; the threshold is
\* given in milliseconds (stalenessHours * 1000 * 60 * 60).
IsSyncNeeded(c, clock, staleness) ==
    IF c = NoCheckpoint \/ c.lastSync = INITIAL_SYNC_CHECKPOINT
    THEN TRUE
    ELSE clock - GetTime(c.lastSync) >= staleness

\* ------------------------------------------------------------ query engine
DEFAULT_LIMIT == 20
MAX_LIMIT == 100
MIN_LIMIT == 1
MIN_OFFSET == 0

\* At most this many filter dimensions are supplied in one request.
MaxDims == 2

Min2(a, b) == IF a <= b THEN a ELSE b

\* A JavaScript object is a function from the keys that are set on it; o.k is
\* truthy exactly when k is one of them.
NoKeys == << >>
Has(o, k) == k \in DOMAIN o
Opt(k, values) == {NoKeys} \cup {k :> v : v \in values}

\* 'YYYY-MM-DD' strings (and the prefix 'YYYY-MM') in code-unit order.
DateGT(a, b) ==
    \/ a.y > b.y
    \/ a.y = b.y /\ a.m > b.m
    \/ a.y = b.y /\ a.m = b.m /\ a.d > b.d

\* SQL NULL in a date column of a result row: it sorts before every value.
NullDate == Date(0, 0, 0)

\* The characters of the query strings in use.
Chars(string) ==
    CASE string = "" -> << >>
      [] string = "   " -> << " ", " ", " " >>
      [] string = "revis" -> << "r", "e", "v", "i", "s" >>
      [] string = "generally (available)" ->
            << "g", "e", "n", "e", "r", "a", "l", "l", "y", " ", "(",
               "a", "v", "a", "i", "l", "a", "b", "l", "e", ")" >>
      [] string = "(*)" -> << "(", "*", ")" >>
      [] string = " :revis* " -> << " ", ":", "r", "e", "v", "i", "s", "*", " " >>

\* keyword && keyword.trim() !== ''
HasKeyword(query) ==
    /\ Has(query, "query")
    /\ \E k \in 1..Len(Chars(query.query)) : Chars(query.query)[k] # " "

\* /[(){}[\]^~*:]/
FtsOperators == {"(", ")", "{", "}", "[", "]", "^", "~", "*", ":"}

RECURSIVE SplitWords(_, _, _)
\* The words of chars from position k on, with the FTS5 operator characters
\* read as blanks; `word` is the word begun before k.
SplitWords(chars, k, word) ==
    IF k > Len(chars) THEN (IF word = "" THEN << >> ELSE << word >>)
    ELSE IF chars[k] = " " \/ chars[k] \in FtsOperators
    THEN (IF word = "" THEN << >> ELSE << word >>) \o SplitWords(chars, k + 1, "")
    ELSE SplitWords(chars, k + 1, word \o chars[k])

\* sanitizeFtsQuery: the operator characters become blanks, the words that are
\* left are quoted for prefix matching ("word"*) and joined with OR.  The
\* expression is kept as the list of its words.
SanitizeFtsQuery(query) == SplitWords(Chars(query), 1, "")

\* updates_fts MATCH '' is a syntax error of FTS5.
FtsSyntaxError(query) ==
    HasKeyword(query) /\ SanitizeFtsQuery(query.query) = << >>

\* The tokens the full-text index holds for a text.
TokensOf(text) ==
    CASE text = "Azure update" -> {"azure", "update"}
      [] text = "Azure update (revised)" -> {"azure", "update", "revised"}
      [] text = "Generally **available**" -> {"generally", "available"}
      [] OTHER -> {}

\* "term"* matches a token that starts with term.
PrefixOf(term, token) == term = token \/ (term = "revis" /\ token = "revised")

MatchedTerms(row, ftsQuery) ==
    {k \in 1..Len(ftsQuery) :
        \E token \in TokensOf(row.title) \cup TokensOf(row.description_md) :
            PrefixOf(ftsQuery[k], token)}

\* updates_fts MATCH ?
FtsMatch(row, ftsQuery) == MatchedTerms(row, ftsQuery) # {}

\* fts.rank: smaller is better.
FtsRank(row, ftsQuery) == 0 - Cardinality(MatchedTerms(row, ftsQuery))

Clause(kind, value) == [kind |-> kind, value |-> value]

\* buildFilterClauses: one clause per filter key the function reads.
BuildFilterClauses(filters) ==
    (IF Has(filters, "status") THEN << Clause("status", filters.status) >> ELSE << >>)
    \o (IF Has(filters, "availabilityRing")
        THEN << Clause("availabilityRing", filters.availabilityRing) >> ELSE << >>)
    \o (IF Has(filters, "dateFrom") THEN << Clause("dateFrom", filters.dateFrom) >> ELSE << >>)
    \o (IF Has(filters, "dateTo") THEN << Clause("dateTo", filters.dateTo) >> ELSE << >>)
    \o (IF Has(filters, "retirementDateFrom")
        THEN << Clause("retirementDateFrom", filters.retirementDateFrom) >> ELSE << >>)
    \o (IF Has(filters, "retirementDateTo")
        THEN << Clause("retirementDateTo", filters.retirementDateTo) >> ELSE << >>)

\* if (!filters) return []
FilterClauses(query) ==
    IF Has(query, "filters") THEN BuildFilterClauses(query.filters) ELSE << >>

\* The row with id `id` satisfies one clause of the WHERE predicate.
ClauseHolds(d, id, clause) ==
    LET row == d.updates[id]
        ua == d.availabilities[id]
    IN  CASE clause.kind = "status" -> row.status = clause.value
          [] clause.kind = "availabilityRing" ->
                \E k \in 1..Len(ua) : ua[k].ring = clause.value
          [] clause.kind = "dateFrom" -> ~StrGT(clause.value, row.modified)
          [] clause.kind = "dateTo" -> ~StrGT(row.modified, clause.value)
          [] clause.kind = "retirementDateFrom" ->
                \E k \in 1..Len(ua) :
                    ua[k].ring = "Retirement" /\ ~DateGT(clause.value, ua[k].date)
          [] clause.kind = "retirementDateTo" ->
                \E k \in 1..Len(ua) :
                    ua[k].ring = "Retirement" /\ ~DateGT(ua[k].date, clause.value)

\* The ids the WHERE predicate of buildSearchQuery and buildCountQuery selects.
Matching(d, query) ==
    LET clauses == FilterClauses(query)
    IN  {i \in Ids :
            /\ d.updates[i] # NoRow
            /\ HasKeyword(query) =>
                  /\ d.fts[i] # NoRow
                  /\ FtsMatch(d.fts[i], SanitizeFtsQuery(query.query))
            /\ \A k \in 1..Len(clauses) : ClauseHolds(d, i, clauses[k])}

OrderTerm(key, dir) == [key |-> key, dir |-> dir]

GetDefaultOrderBy(hasKeywordSearch) ==
    IF hasKeywordSearch
    THEN << OrderTerm("rank", "ASC"), OrderTerm("modified", "DESC") >>
    ELSE << OrderTerm("modified", "DESC") >>

\* buildOrderByClause: the ORDER BY terms for a sortBy value.
BuildOrderByClause(query, hasKeywordSearch) ==
    IF ~Has(query, "sortBy") \/ query.sortBy = "relevance"
    THEN GetDefaultOrderBy(hasKeywordSearch)
    ELSE CASE query.sortBy = "modified:desc" -> << OrderTerm("modified", "DESC") >>
           [] query.sortBy = "modified:asc" -> << OrderTerm("modified", "ASC") >>
           [] query.sortBy = "created:desc" -> << OrderTerm("created", "DESC") >>
           [] query.sortBy = "created:asc" -> << OrderTerm("created", "ASC") >>
           [] query.sortBy = "retirementDate:asc" -> << OrderTerm("retirementDate", "ASC") >>
           [] query.sortBy = "retirementDate:desc" -> << OrderTerm("retirementDate", "DESC") >>
           [] OTHER -> GetDefaultOrderBy(hasKeywordSearch)

\* getRetirementDateSubquery: the date of a Retirement row of the update, NULL
\* when it has none.
RetirementDate(d, id) ==
    LET ua == d.availabilities[id]
        S == {k \in 1..Len(ua) : ua[k].ring = "Retirement"}
    IN  IF S = {} THEN NullDate ELSE ua[CHOOSE k \in S : \A j \in S : k <= j].date

\* Row a sorts strictly before row b under one ORDER BY term, in ascending
\* direction (TEXT columns compare as strings, NULL before everything).
TermLess(d, ftsQuery, key, a, b) ==
    CASE key = "rank" -> FtsRank(d.fts[a], ftsQuery) < FtsRank(d.fts[b], ftsQuery)
      [] key = "modified" -> StrGT(d.updates[b].modified, d.updates[a].modified)
      [] key = "created" -> StrGT(d.updates[b].created, d.updates[a].created)
      [] key = "retirementDate" -> DateGT(RetirementDate(d, b), RetirementDate(d, a))

RECURSIVE SortsBefore(_, _, _, _, _, _)
\* Row a sorts strictly before row b under the ORDER BY terms from position k.
SortsBefore(d, ftsQuery, orderBy, k, a, b) ==
    IF k > Len(orderBy) THEN FALSE
    ELSE LET less == TermLess(d, ftsQuery, orderBy[k].key, a, b)
             more == TermLess(d, ftsQuery, orderBy[k].key, b, a)
         IN  IF orderBy[k].dir = "ASC"
             THEN less \/ (~more /\ SortsBefore(d, ftsQuery, orderBy, k + 1, a, b))
             ELSE more \/ (~less /\ SortsBefore(d, ftsQuery, orderBy, k + 1, a, b))

\* The row orders a SELECT ... ORDER BY may produce for the matching rows: rows
\* the ORDER BY terms do not separate come in the order the statement's plan
\* scans them, which SQL leaves open.
RowOrders(d, query) ==
    LET S == Matching(d, query)
        n == Cardinality(S)
        ftsQuery == IF HasKeyword(query) THEN SanitizeFtsQuery(query.query) ELSE << >>
        orderBy == BuildOrderByClause(query, HasKeyword(query))
    IN  {o \in [1..n -> S] :
            /\ \A i, j \in 1..n : i # j => o[i] # o[j]
            /\ \A i, j \in 1..n :
                  i < j => ~SortsBefore(d, ftsQuery, orderBy, 1, o[j], o[i])}

\* LIMIT ? OFFSET ? with the offset applied one row too far.
PageAfterOffsetRow(o, limit, offset) ==
    SubSeq(o, offset + 2, Min2(Len(o), offset + 1 + limit))

\* LIMIT ? OFFSET ? (SQLite reads a negative offset as 0)
Page(o, limit, offset) ==
    SubSeq(o, Max2(offset, 0) + 1, Min2(Len(o), Max2(offset, 0) + limit))

\* One result of searchUpdates: the row and its side rows.
Enrich(d, query, id) ==
    [id |-> id,
     title |-> d.updates[id].title,
     status |-> d.updates[id].status,
     created |-> d.updates[id].created,
     modified |-> d.updates[id].modified,
     tags |-> d.tags[id],
     productCategories |-> d.categories[id],
     products |-> d.products[id],
     availabilities |-> d.availabilities[id],
     relevanceScore |->
        IF HasKeyword(query)
        THEN FtsRank(d.fts[id], SanitizeFtsQuery(query.query)) ELSE 0]

\* The response with hasMore computed from the offset alone.
CreateSearchResponseByOffset(results, totalResults, limit, offset) ==
    [results |-> results,
     metadata |-> [totalResults |-> totalResults,
                   returnedResults |-> Len(results),
                   limit |-> limit,
                   offset |-> offset,
                   hasMore |-> totalResults > offset]]

\* createSearchResponse
CreateSearchResponse(results, totalResults, limit, offset) ==
    [results |-> results,
     metadata |-> [totalResults |-> totalResults,
                   returnedResults |-> Len(results),
                   limit |-> limit,
                   offset |-> offset,
                   hasMore |-> totalResults > offset + Len(results)]]

\* searchUpdates(db, query), the page statement having produced row order o.
SearchUpdates(d, query, o) ==
    LET limit == Min2(IF Has(query, "limit") THEN query.limit ELSE DEFAULT_LIMIT, MAX_LIMIT)
        offset == IF Has(query, "offset") THEN query.offset ELSE 0
        results == Page(o, limit, offset)
        totalResults == Cardinality(Matching(d, query))
    IN  CreateSearchResponse([k \in 1..Len(results) |-> Enrich(d, query, results[k])],
                             totalResults, limit, offset)

\* ---------------------------------------------------- search_azure_updates
VALID_AVAILABILITY_RINGS == {"General Availability", "Preview", "Private Preview", "Retirement"}

ValidSortOptions ==
    {"modified:desc", "modified:asc", "created:desc", "created:asc",
     "retirement:asc", "retirement:desc"}

\* Arguments that are not an object (a string, a number, null, undefined).
NotAnObject == "typeof" :> "string"

\* Key k of object o holds a value of another JavaScript type than the one
\* the tool expects; the object lists such keys under "wrongType" and has no
\* entry for them.
WrongType(o, k) == Has(o, "wrongType") /\ k \in o.wrongType

\* A string that is no date: new Date(s).getTime() is NaN.
InvalidDate == [t |-> 0 - 2, short |-> TRUE]

\* isValidIsoDate
IsValidIsoDate(dateString) == dateString # InvalidDate

\* isValidRetirementDate: YYYY-MM or YYYY-MM-DD with month 01..12, day 01..31.
IsValidRetirementDate(date) == date.m \in 1..12 /\ date.d \in 0..31

\* validateArrayFilter
ValidateArrayFilter(filters, fieldName) ==
    IF WrongType(filters, fieldName) THEN {<< fieldName, "must be an array" >>} ELSE {}

\* validateDateFilter
ValidateDateFilter(filters, fieldName) ==
    IF WrongType(filters, fieldName) THEN {<< fieldName, "must be a string" >>}
    ELSE IF ~Has(filters, fieldName) THEN {}
    ELSE IF fieldName \in {"retirementFrom", "retirementTo"}
    THEN (IF IsValidRetirementDate(filters[fieldName]) THEN {}
          ELSE {<< fieldName, "must be in YYYY-MM or YYYY-MM-DD format" >>})
    ELSE (IF IsValidIsoDate(filters[fieldName]) THEN {}
          ELSE {<< fieldName, "must be a valid ISO 8601 date" >>})

\* validateFilters
ValidateFilters(filters) ==
    ValidateArrayFilter(filters, "tags")
    \cup ValidateArrayFilter(filters, "productCategories")
    \cup ValidateArrayFilter(filters, "products")
    \cup (IF WrongType(filters, "status") THEN {<< "status", "must be a string" >>} ELSE {})
    \cup (IF WrongType(filters, "availabilityRing")
          THEN {<< "availabilityRing", "must be a string" >>}
          ELSE IF Has(filters, "availabilityRing")
                  /\ filters.availabilityRing \notin VALID_AVAILABILITY_RINGS
          THEN {<< "availabilityRing", "must be one of" >>} ELSE {})
    \cup ValidateDateFilter(filters, "modifiedFrom")
    \cup ValidateDateFilter(filters, "modifiedTo")
    \cup ValidateDateFilter(filters, "retirementFrom")
    \cup ValidateDateFilter(filters, "retirementTo")

\* A validation that accepts every request.
NoValidationErrors(args) == {}

\* validateInput: the error messages for the tool arguments.
ValidationErrors(args) ==
    IF Has(args, "typeof") THEN {<< "input", "must be an object with query parameters" >>}
    ELSE
    (IF WrongType(args, "limit") THEN {<< "limit", "must be a number" >>}
     ELSE IF Has(args, "limit") /\ (args.limit < MIN_LIMIT \/ args.limit > MAX_LIMIT)
     THEN {<< "limit", "must be between 1 and 100" >>} ELSE {})
    \cup (IF WrongType(args, "offset") THEN {<< "offset", "must be a number" >>}
          ELSE IF Has(args, "offset") /\ args.offset < MIN_OFFSET
          THEN {<< "offset", "must be non-negative" >>} ELSE {})
    \cup (IF WrongType(args, "query") THEN {<< "query", "must be a string" >>} ELSE {})
    \cup (IF WrongType(args, "sortBy") THEN {<< "sortBy", "must be a string" >>}
          ELSE IF Has(args, "sortBy") /\ args.sortBy \notin ValidSortOptions
          THEN {<< "sortBy", "must be one of" >>} ELSE {})
    \cup (IF WrongType(args, "filters") THEN {<< "filters", "must be an object" >>}
          ELSE IF Has(args, "filters") THEN ValidateFilters(args.filters) ELSE {})

\* substring(0, 7) + '-01'
NormalizeMonth(date) == Date(date.y, date.m, 1)

Copy(o, k) == IF Has(o, k) THEN k :> o[k] ELSE NoKeys

\* buildSearchFilters
BuildSearchFilters(inputFilters) ==
    Copy(inputFilters, "status") @@ Copy(inputFilters, "availabilityRing")
    @@ Copy(inputFilters, "modifiedFrom") @@ Copy(inputFilters, "modifiedTo")
    @@ (IF Has(inputFilters, "retirementFrom")
        THEN "retirementFrom" :> NormalizeMonth(inputFilters.retirementFrom) ELSE NoKeys)
    @@ (IF Has(inputFilters, "retirementTo")
        THEN "retirementTo" :> NormalizeMonth(inputFilters.retirementTo) ELSE NoKeys)
    @@ Copy(inputFilters, "tags") @@ Copy(inputFilters, "products")
    @@ Copy(inputFilters, "productCategories")

\* validateInput, for valid arguments: the SearchQuery handed to searchUpdates.
BuildSearchQuery(args) ==
    Copy(args, "query") @@ Copy(args, "sortBy")
    @@ ("limit" :> IF Has(args, "limit") THEN args.limit ELSE DEFAULT_LIMIT)
    @@ ("offset" :> IF Has(args, "offset") THEN args.offset ELSE MIN_OFFSET)
    @@ (IF Has(args, "filters")
        THEN "filters" :> BuildSearchFilters(args.filters) ELSE NoKeys)

MONTH_NAMES ==
    << "January", "February", "March", "April", "May", "June", "July", "August",
       "September", "October", "November", "December" >>

GetMonthName(monthNum) ==
    IF monthNum < 1 \/ monthNum > 12 THEN "" ELSE MONTH_NAMES[monthNum]

\* formatAvailability: "2026-03-01" becomes {ring, year: 2026, month: "March"}.
FormatAvailability(availability) ==
    [ring |-> availability.ring,
     year |-> availability.date.y,
     month |-> GetMonthName(availability.date.m)]

FormatAvailabilities(availabilities) ==
    [k \in 1..Len(availabilities) |-> FormatAvailability(availabilities[k])]

\* The formatted response of the tool, as an object.
FormatResponse(response) ==
    [results |-> [k \in 1..Len(response.results) |->
                    [id |-> response.results[k].id,
                     title |-> response.results[k].title,
                     status |-> response.results[k].status,
                     tags |-> response.results[k].tags,
                     productCategories |-> response.results[k].productCategories,
                     products |-> response.results[k].products,
                     availabilities |->
                        FormatAvailabilities(response.results[k].availabilities),
                     created |-> response.results[k].created,
                     modified |-> response.results[k].modified,
                     relevance |-> response.results[k].relevanceScore]],
     metadata |-> [total |-> response.metadata.totalResults,
                   limit |-> response.metadata.limit,
                   offset |-> response.metadata.offset,
                   hasMore |-> response.metadata.hasMore]]

\* ------------------------------------------------------------------ state
VARIABLES
    feed,        \* the remote feed: id -> published record (or NoRec)
    db,          \* the record store, as committed
    checkpoint,  \* the sync_checkpoints row
    now,         \* the local clock, in milliseconds
    pc,          \* per caller: "idle" or "awaitFetch" (inside performSync)
    frame,       \* per caller: the locals performSync holds across the await
    ret,         \* what a performSync call settled with in the step just taken
    resp         \* what a search call answered in the step just taken

vars == <<feed, db, checkpoint, now, pc, frame, ret, resp>>

NoReturn == [settled |-> "none", result |-> Rejected]

NoResponse == [kind |-> "none"]

\* A performSync call settled: "resolved" with a SyncResult, or "rejected"
\* (performSync threw).
Return(settled, result) == [settled |-> settled, result |-> result]

Init ==
    /\ feed = [i \in Ids |-> NoRec]
    /\ db = EmptyDb
    /\ checkpoint = SeedCheckpoint
    /\ now = 1
    /\ pc = [p \in Procs |-> "idle"]
    /\ frame = [p \in Procs |-> IdleFrame]
    /\ ret = NoReturn
    /\ resp = NoResponse

\* The feed publishes record i, or a later version of it.  Its stamps come from
\* the feed's clock, which the local clock is not synchronised with.
Publish(i, created, modified) ==
    /\ IF feed[i] = NoRec
       THEN feed' = [feed EXCEPT ![i] = [created |-> created, modified |-> modified]]
       ELSE /\ created = feed[i].created
            /\ modified > feed[i].modified
            /\ feed' = [feed EXCEPT ![i].modified = modified]
    /\ ret' = NoReturn
    /\ resp' = NoResponse
    /\ UNCHANGED <<db, checkpoint, now, pc, frame>>

Tick ==
    /\ now < MaxNow
    /\ now' = now + 1
    /\ ret' = NoReturn
    /\ resp' = NoResponse
    /\ UNCHANGED <<feed, db, checkpoint, pc, frame>>

Call(p, retentionStartDate, faults) ==
    /\ pc[p] = "idle"
    /\ LET out == BeforeFetch(db, checkpoint, retentionStartDate, faults)
       IN  /\ checkpoint' = out.checkpoint
           /\ frame' = [frame EXCEPT ![p] = out.frame]
           /\ pc' = [pc EXCEPT ![p] = IF out.awaiting THEN "awaitFetch" ELSE "idle"]
           /\ ret' = IF out.awaiting THEN NoReturn
                     ELSE Return(out.settled, out.result)
    /\ resp' = NoResponse
    /\ UNCHANGED <<feed, db, now>>

Settle(p, out) ==
    /\ db' = out.db
    /\ checkpoint' = out.checkpoint
    /\ ret' = Return(out.settled, out.result)
    /\ pc' = [pc EXCEPT ![p] = "idle"]
    /\ frame' = [frame EXCEPT ![p] = IdleFrame]
    /\ resp' = NoResponse
    /\ UNCHANGED <<feed, now>>

Resolve(p, faults) ==
    /\ pc[p] = "awaitFetch"
    /\ Settle(p, AfterFetch(db, checkpoint, frame[p], now,
                            FetchAzureUpdates(feed, frame[p].modifiedSince), faults))

Reject(p, error, faults) ==
    /\ pc[p] = "awaitFetch"
    /\ Settle(p, Catch(db, checkpoint, Err(error), faults))

\* performSync(db, retentionStartDate) is called.
PerformSync(p, retentionStartDate) == Call(p, retentionStartDate, {})

\* fetchAzureUpdates resolves and performSync runs to its return.
FetchResolves(p) == Resolve(p, {})

\* fetchAzureUpdates rejects and performSync runs its catch block.
FetchRejects(p, error) == Reject(p, error, {})

Next ==
    \/ \E i \in Ids, created \in CreatedStamps, modified \in Stamps : Publish(i, created, modified)
    \/ Tick
    \/ \E p \in Procs, r \in RetentionDates \cup {Undefined} : PerformSync(p, r)
    \/ \E p \in Procs : FetchResolves(p)
    \/ \E p \in Procs, e \in FetchErrors : FetchRejects(p, e)

Spec == Init /\ [][Next]_vars

\* The same program over a store whose calls may throw.
CallFaults ==
    {{"startSync"}, {"getSyncCheckpoint"}, {"getSyncCheckpoint", "completeSyncFailure"}}

ResolveFaults ==
    {{"transaction"}, {"completeSyncSuccess"}, {"completeSyncFailure"},
     {"transaction", "completeSyncFailure"}, {"completeSyncSuccess", "completeSyncFailure"}}

PerformSyncStoreFault(p, retentionStartDate) ==
    \E faults \in CallFaults : Call(p, retentionStartDate, faults)

FetchResolvesStoreFault(p) ==
    \E faults \in ResolveFaults : Resolve(p, faults)

FetchRejectsStoreFault(p, error) == Reject(p, error, {"completeSyncFailure"})

NextStoreFault ==
    \/ Next
    \/ \E p \in Procs, r \in RetentionDates \cup {Undefined} : PerformSyncStoreFault(p, r)
    \/ \E p \in Procs : FetchResolvesStoreFault(p)
    \/ \E p \in Procs, e \in FetchErrors : FetchRejectsStoreFault(p, e)

SpecStoreFault == Init /\ [][NextStoreFault]_vars

\* The process is stopped while invocations of performSync wait for the feed,
\* and is started again: the invocations are gone, the database file with the
\* checkpoint row is as the last committed statement left it.
Restart ==
    /\ \E p \in Procs : pc[p] # "idle"
    /\ pc' = [p \in Procs |-> "idle"]
    /\ frame' = [p \in Procs |-> IdleFrame]
    /\ ret' = NoReturn
    /\ resp' = NoResponse
    /\ UNCHANGED <<feed, db, checkpoint, now>>

NextRestart ==
    \/ Next
    \/ Restart

\* The same program in a process that may be stopped and restarted.
SpecRestart == Init /\ [][NextRestart]_vars

\* ---------------------------------------------------------------- searching
\* Tool arguments of search_azure_updates.
FilterValues ==
    Opt("status", {"Active"})
    \X Opt("availabilityRing", {"Retirement", "Preview"})
    \X Opt("tags", {<< "Security" >>, << "Security", "Pricing" >>})
    \X Opt("productCategories", {<< "Databases" >>})
    \X Opt("products", {<< "Azure VM" >>})
    \X Opt("modifiedFrom", {ToISOString(1)})
    \X Opt("modifiedTo", {ToISOString(1)})
    \X Opt("retirementFrom", {Date(2026, 4, 0), Date(2026, 4, 15)})
    \X Opt("retirementTo", {Date(2026, 3, 20)})

FilterInputs ==
    {f \in {t[1] @@ t[2] @@ t[3] @@ t[4] @@ t[5] @@ t[6] @@ t[7] @@ t[8] @@ t[9] :
                t \in FilterValues} :
        Cardinality(DOMAIN f) <= MaxDims}

ToolInputs ==
    {t[1] @@ t[2] @@ t[3] @@ t[4] @@ t[5] :
        t \in Opt("query", {"   ", "revis", "generally (available)"})
              \X Opt("sortBy", ValidSortOptions \cup {"relevance"})
              \X Opt("limit", {1})
              \X Opt("offset", {3})
              \X Opt("filters", FilterInputs)}

\* Requests in the vocabulary searchUpdates reads.
EngineQueries ==
    {t[1] @@ t[2] @@ t[3] :
        t \in Opt("sortBy", {"retirementDate:asc", "retirementDate:desc"})
              \X Opt("limit", {1})
              \X Opt("filters",
                     {"retirementDateFrom" :> Date(2026, 4, 1),
                      "retirementDateTo" :> Date(2026, 3, 1),
                      ("retirementDateFrom" :> Date(2026, 4, 1))
                          @@ ("retirementDateTo" :> Date(2026, 5, 1)),
                      "dateFrom" :> ToISOString(1)})}

\* A walk over the pages of one request: the ids the earlier pages returned,
\* the number of those pages, and the order in which the statement's plan yields the matching rows.  The
\* statement text and the store are the same for every page of a walk, so the
\* plan and the order it yields are too.
NoWalk == [collected |-> << >>, pages |-> 0, scan |-> << >>]

\* What a search call answered: the request, the response and the walk.
Answer(via, request, query, response, walk, scan) ==
    [kind |-> "search", via |-> via, request |-> request, query |-> query,
     results |-> response.results, metadata |-> response.metadata,
     collected |-> walk.collected, pages |-> walk.pages, scan |-> scan]

\* createErrorResponse, with the request it answers.
CreateErrorResponse(request, error, details) ==
    [kind |-> "error", request |-> request, error |-> error, details |-> details]

\* handleSearchAzureUpdates(db, args), as a page of the given walk; with a
\* fault, a statement of searchUpdates throws.
HandleSearchAzureUpdates(args, walk, faults) ==
    /\ IF ValidationErrors(args) # {}
       THEN resp' = CreateErrorResponse(args, "Validation failed", ValidationErrors(args))
       ELSE IF "searchUpdates" \in faults
       THEN resp' = CreateErrorResponse(args, "Search failed", {StoreError.msg})
       ELSE IF FtsSyntaxError(BuildSearchQuery(args))
       THEN resp' = CreateErrorResponse(args, "Search failed", {"fts5: syntax error"})
       ELSE LET query == BuildSearchQuery(args)
            IN  \E o \in (IF walk = NoWalk THEN RowOrders(db, query) ELSE {walk.scan}) :
                    resp' = Answer("tool", args, query,
                                   FormatResponse(SearchUpdates(db, query, o)),
                                   walk, o)
    /\ ret' = NoReturn
    /\ UNCHANGED <<feed, db, checkpoint, now, pc, frame>>

\* The client calls the tool; it makes one call at a time.
Search ==
    /\ resp = NoResponse
    /\ \E args \in ToolInputs : HandleSearchAzureUpdates(args, NoWalk, {})

\* The client is done with the answer it got.
Consume ==
    /\ resp # NoResponse
    /\ resp' = NoResponse
    /\ ret' = NoReturn
    /\ UNCHANGED <<feed, db, checkpoint, now, pc, frame>>

\* A client that got hasMore asks for the next page of the same request.
NextPage ==
    /\ resp.kind = "search"
    /\ resp.via = "tool"
    /\ resp.metadata.hasMore
    /\ resp.metadata.offset = resp.pages * resp.metadata.limit
    /\ HandleSearchAzureUpdates(
          [k \in DOMAIN resp.request \cup {"offset"} |->
              IF k = "offset" THEN resp.metadata.offset + resp.metadata.limit
              ELSE resp.request[k]],
          [collected |->
              resp.collected \o [k \in 1..Len(resp.results) |-> resp.results[k].id],
           pages |-> resp.pages + 1,
           scan |-> resp.scan],
          {})

\* searchUpdates(db, query) called with a query in its own vocabulary.
EngineSearch ==
    /\ resp = NoResponse
    /\ \E query \in EngineQueries :
          \E o \in RowOrders(db, query) :
              resp' = Answer("engine", query, query, SearchUpdates(db, query, o),
                             NoWalk, o)
    /\ ret' = NoReturn
    /\ UNCHANGED <<feed, db, checkpoint, now, pc, frame>>

\* The feeds whose records the store accepts.
CleanFeeds ==
    {f \in [Ids -> {NoRec} \cup [created : CreatedStamps, modified : Stamps]] :
        \A i \in Ids : f[i] # NoRec => f[i].modified >= f[i].created}

\* The store and the checkpoint after an initial sync of feed f.
Synced(f) ==
    LET started == BeforeFetch(EmptyDb, SeedCheckpoint, Undefined, {})
    IN  AfterFetch(EmptyDb, started.checkpoint, started.frame, 1,
                   FetchAzureUpdates(f, started.frame.modifiedSince), {})

InitSearch ==
    /\ feed \in CleanFeeds
    /\ db = Synced(feed).db
    /\ checkpoint = Synced(feed).checkpoint
    /\ now = 1
    /\ pc = [p \in Procs |-> "idle"]
    /\ frame = [p \in Procs |-> IdleFrame]
    /\ ret = NoReturn
    /\ resp = NoResponse

NextSearch ==
    \/ Search
    \/ NextPage
    \/ EngineSearch
    \/ Consume

\* Searches over a store that a sync has filled.
SpecSearch == InitSearch /\ [][NextSearch]_vars

\* Requests that fail validation, one per rule, and two that pass.
InvalidInputs ==
    {NotAnObject,
     "wrongType" :> {"limit"}, "limit" :> 0, "limit" :> 101,
     "wrongType" :> {"offset"}, "offset" :> 0 - 1,
     "wrongType" :> {"query"},
     "wrongType" :> {"sortBy"}, "sortBy" :> "relevance",
     "wrongType" :> {"filters"}}
    \cup {"filters" :> f :
            f \in {"wrongType" :> {"tags"}, "wrongType" :> {"status"},
                   "wrongType" :> {"availabilityRing"},
                   "availabilityRing" :> "GA",
                   "wrongType" :> {"modifiedFrom"},
                   "modifiedTo" :> InvalidDate,
                   "retirementFrom" :> Date(2026, 13, 0),
                   "retirementTo" :> Date(2026, 4, 32)}}
    \cup {("limit" :> 0) @@ ("sortBy" :> "newest") @@ ("filters" :> ("availabilityRing" :> "GA"))}

CheckedInputs ==
    InvalidInputs
    \cup {NoKeys, ("query" :> "revis") @@ ("limit" :> 1),
          "query" :> "   ", "query" :> "generally (available)",
          "query" :> "(*)", "query" :> " :revis* ",
          ("limit" :> 100) @@ ("offset" :> 0) @@ ("filters" :> ("availabilityRing" :> "Retirement"))}

\* The tool is called while the store may fail (closed or locked database).
SearchChecked ==
    /\ resp = NoResponse
    /\ \E args \in CheckedInputs, faults \in SUBSET {"searchUpdates"} :
          HandleSearchAzureUpdates(args, NoWalk, faults)

NextTool ==
    \/ SearchChecked
    \/ Consume

\* Tool calls with valid and invalid arguments over a store that may fail.
SpecTool == InitSearch /\ [][NextTool]_vars

\* A reader lists the store (no query, no filters, the default page) at any
\* moment, also between the two halves of a performSync call.
ReaderInputs == {NoKeys}

Read == \E args \in ReaderInputs : HandleSearchAzureUpdates(args, NoWalk, {})

NextReader ==
    \/ Next
    \/ Read

\* Syncs and a reader in the one process.
SpecReader == Init /\ [][NextReader]_vars

\* ----------------------------------------------------------------- claims
Retentions == RetentionDates \cup {Undefined}

\* p's performSync call settles in this step.
Settles(p) == pc[p] = "awaitFetch" /\ pc'[p] = "idle"

\* The updates that survive the retention filter if p's fetch resolves now.
Batch(p) ==
    SurvivingUpdates(FetchAzureUpdates(feed, frame[p].modifiedSince),
                     frame[p].retentionStartDate)

\* Some record of the batch violates the store's chk_dates constraint.
PoisonIn(updates) == \E k \in 1..Len(updates) : ~ChkDates(updates[k])

\* The instant-wise latest modified stamp of a non-empty batch.
MaxModified(updates) ==
    LET S == {updates[k].modified.t : k \in 1..Len(updates)}
    IN  Long(CHOOSE m \in S : \A x \in S : x <= m)

\* max(created, modified) of a stored row, in milliseconds.
RelevantTime(row) == Max2(GetTime(row.modified), GetTime(row.created))

\* C1: while the checkpoint status is in_progress, no idle caller gets past the
\* guard (no request goes out to the feed), and a call made then resolves to
\* success=false, error 'Sync already in progress', zero counts, leaving the
\* checkpoint, the store and every caller's frame as they were.
C1_RejectedWhileInProgress ==
    [][checkpoint.syncStatus = "in_progress" =>
         /\ \A p \in Procs : pc[p] = "idle" => pc'[p] = "idle"
         /\ (pc' = pc /\ ret'.settled # "none") =>
               /\ ret' = Return("resolved", AlreadyInProgress)
               /\ UNCHANGED <<checkpoint, db, frame, feed>>]_vars

\* A call was just turned away by the guard while another one is in flight.
C1_Witness ==
    /\ ret = Return("resolved", AlreadyInProgress)
    /\ checkpoint.syncStatus = "in_progress"
    /\ GetUpdateCount(db) > 0

\* C2: at most one performSync call is between its guard acquisition and its
\* completion, and the checkpoint status is in_progress for as long as it is.
C2_MutualExclusion ==
    /\ Cardinality({p \in Procs : pc[p] = "awaitFetch"}) <= 1
    /\ (\E p \in Procs : pc[p] = "awaitFetch") => checkpoint.syncStatus = "in_progress"

\* Two calls overlapped: one holds the guard, the other was just turned away.
C2_Witness ==
    /\ \E p \in Procs : pc[p] = "awaitFetch"
    /\ ret = Return("resolved", AlreadyInProgress)

\* C3: the checkpoint watermark never decreases (a step counts as a decrease
\* only when the new watermark is both an earlier instant and a smaller string).
C3_WatermarkNeverDecreases ==
    [][~(/\ checkpoint.lastSync.t > checkpoint'.lastSync.t
         /\ StrGT(checkpoint.lastSync, checkpoint'.lastSync))]_vars

\* C4: when the surviving batch holds a record the store refuses, the call
\* leaves the whole store as it was, resolves to success=false, sets the
\* checkpoint status to failed and keeps the watermark it started with.
C4_AllOrNothing ==
    [][\A p \in Procs :
         (Settles(p) /\ PoisonIn(Batch(p))) =>
            /\ db' = db
            /\ ret'.settled = "resolved"
            /\ ~ret'.result.success
            /\ checkpoint'.syncStatus = "failed"
            /\ checkpoint'.lastSync = checkpoint.lastSync
            /\ checkpoint'.lastSync = frame[p].lastSync]_vars

\* An initial sync of both records failed on record 2 after record 1 had been
\* written inside the transaction; record 1 is not in the store.
C4_Witness ==
    /\ ret = Return("resolved", CatchResult([msg |-> "Failed to sync update", id |-> 2]))
    /\ checkpoint.lastSync = INITIAL_SYNC_CHECKPOINT
    /\ checkpoint.syncStatus = "failed"
    /\ feed[1] = [created |-> 1, modified |-> MaxStamp]
    /\ db.updates[1] = NoRow

\* C5: when the fetch rejects with an error, the call resolves to success=false
\* with that error and zero counts, the checkpoint becomes failed with that
\* message, and the watermark and the store are unchanged.
C5_FetchFailure ==
    [][\A p \in Procs, e \in FetchErrors :
         FetchRejects(p, e) =>
            /\ ret' = Return("resolved", SyncResult(FALSE, 0, 0, 0, Err(e)))
            /\ checkpoint'.syncStatus = "failed"
            /\ checkpoint'.errorMessage = Err(e)
            /\ checkpoint'.lastSync = checkpoint.lastSync
            /\ checkpoint'.recordCount = checkpoint.recordCount
            /\ db' = db]_vars

\* A differential sync over a non-empty store just failed in its fetch.
C5_Witness ==
    /\ ret.settled = "resolved"
    /\ ret.result.error.msg \in FetchErrors
    /\ checkpoint.syncStatus = "failed"
    /\ checkpoint.lastSync # INITIAL_SYNC_CHECKPOINT
    /\ GetUpdateCount(db) > 0

\* C6: when no update survives, the call sets the checkpoint to success with
\* the watermark and the record count unchanged, leaves the store unchanged and
\* resolves to success=true with zero counts.
C6_EmptyBatchKeepsWatermark ==
    [][\A p \in Procs :
         (FetchResolves(p) /\ Len(Batch(p)) = 0) =>
            /\ checkpoint'.syncStatus = "success"
            /\ checkpoint'.lastSync = checkpoint.lastSync
            /\ checkpoint'.recordCount = checkpoint.recordCount
            /\ db' = db
            /\ ret' = Return("resolved", NoUpdatesResult)]_vars

\* C7: after a successful call made with retentionStartDate R the store holds
\* no record whose max(created, modified) lies before R.
C7_RetentionCorrect ==
    [][\A p \in Procs :
         (/\ Settles(p)
          /\ ret'.settled = "resolved"
          /\ ret'.result.success
          /\ frame[p].retentionStartDate # Undefined) =>
            \A i \in Ids :
                db'.updates[i] # NoRow =>
                    RelevantTime(db'.updates[i]) >= frame[p].retentionStartDate]_vars

\* C8: after a successful call with a non-empty surviving batch the watermark
\* is the latest modified stamp of the batch and the checkpoint record count is
\* the number of rows in the store.
C8_WatermarkIsBatchMax ==
    [][\A p \in Procs :
         (FetchResolves(p) /\ Len(Batch(p)) > 0 /\ ret'.result.success) =>
            /\ checkpoint'.lastSync = MaxModified(Batch(p))
            /\ checkpoint'.recordCount = GetUpdateCount(db')]_vars

\* C9: a performSync call never rejects; it always resolves to a SyncResult.
C9_NeverRaises == ret.settled # "rejected"

\* C10: a call that held the guard and failed (it settles without success,
\* whether by a fetch error, a refused record or a throwing store call) leaves
\* the status at failed and the watermark at the value it started with; a call
\* made when the status is not in_progress is not turned away, and the call
\* that gets past the guard reads its lastSync from the checkpoint as it stands.
C10_RetryResumes ==
    [][/\ \A p \in Procs :
            (Settles(p) /\ ~ret'.result.success) =>
               /\ checkpoint'.syncStatus = "failed"
               /\ checkpoint'.lastSync = frame[p].lastSync
       /\ checkpoint.syncStatus # "in_progress" =>
               ret' # Return("resolved", AlreadyInProgress)
       /\ \A p \in Procs :
            (pc[p] = "idle" /\ pc'[p] = "awaitFetch") =>
               /\ frame'[p].lastSync = checkpoint.lastSync
               /\ checkpoint.lastSync # INITIAL_SYNC_CHECKPOINT =>
                     frame'[p].modifiedSince = checkpoint.lastSync]_vars

\* The status changes the checkpoint's life cycle allows.
StatusTransitions ==
    {<<"success", "in_progress">>, <<"failed", "in_progress">>,
     <<"in_progress", "success">>, <<"in_progress", "failed">>}

\* C11: the checkpoint row is there from the start, seeded with the epoch
\* sentinel, and stays there with all its columns; its status is always one of
\* success, failed, in_progress, and every change of the status is one of
\* success -> in_progress, failed -> in_progress, in_progress -> success,
\* in_progress -> failed.
C11_CheckpointSingleton ==
    /\ checkpoint = SeedCheckpoint
    /\ [][/\ DOMAIN checkpoint' = DOMAIN SeedCheckpoint
          /\ checkpoint'.syncStatus \in {"success", "failed", "in_progress"}
          /\ checkpoint'.syncStatus # checkpoint.syncStatus =>
                <<checkpoint.syncStatus, checkpoint'.syncStatus>> \in StatusTransitions]_vars

\* A sync is in flight that got past the guard after a failed one: the status
\* went in_progress -> failed -> in_progress.
C11_Witness ==
    /\ checkpoint.syncStatus = "in_progress"
    /\ checkpoint.errorMessage # NoError
    /\ checkpoint.lastSync # INITIAL_SYNC_CHECKPOINT

\* Every record of the batch is stored already, in the version the batch holds.
AlreadyApplied(updates) ==
    \A k \in 1..Len(updates) :
        /\ db.updates[updates[k].id] # NoRow
        /\ db.updates[updates[k].id].modified = updates[k].modified
        /\ db.updates[updates[k].id].created = updates[k].created

\* C12: a sync whose surviving batch brings nothing new (it is empty, or every
\* record of it is already stored in that version) succeeds and leaves the
\* update rows, the tag, category and product sets, the availability lists and
\* the checkpoint record count as they were.
C12_Idempotent ==
    [][\A p \in Procs :
         (FetchResolves(p) /\ AlreadyApplied(Batch(p))) =>
            /\ ret'.settled = "resolved"
            /\ ret'.result.success
            /\ db' = db
            /\ checkpoint'.recordCount = checkpoint.recordCount
            /\ checkpoint'.recordCount = GetUpdateCount(db)]_vars

\* A sync is about to apply again a non-empty batch that is already stored.
C12_Witness ==
    \E p \in Procs :
        /\ pc[p] = "awaitFetch"
        /\ Len(Batch(p)) > 0
        /\ AlreadyApplied(Batch(p))

\* The store holds update u whole: its row and its four side sets.
Stored(d, u) ==
    /\ d.updates[u.id] # NoRow
    /\ d.updates[u.id].title = u.title
    /\ d.updates[u.id].status = u.status
    /\ d.updates[u.id].created = u.created
    /\ d.updates[u.id].modified = u.modified
    /\ d.tags[u.id] = u.tags
    /\ d.categories[u.id] = u.productCategories
    /\ d.products[u.id] = u.products
    /\ d.availabilities[u.id] = u.availabilities

\* Result r shows one version of its record: scalar fields and sets agree.
OneVersion(r) ==
    \E c \in CreatedStamps, m \in Stamps :
        LET u == AzureUpdate(r.id, [created |-> c, modified |-> m])
        IN  /\ r.title = u.title
            /\ r.status = u.status
            /\ r.created = u.created
            /\ r.modified = u.modified
            /\ r.tags = u.tags
            /\ r.productCategories = u.productCategories
            /\ r.products = u.products
            /\ r.availabilities = FormatAvailabilities(u.availabilities)

Values(list) == {list[k] : k \in 1..Len(list)}

\* The tool answered a valid request that carried filters.
FilteredAnswer ==
    resp.kind = "search" /\ resp.via = "tool" /\ Has(resp.request, "filters")

\* Every value listed for dimension dim of the filters is on the result.
HasEvery(result, filters, dim) ==
    Has(filters, dim) => Values(filters[dim]) \subseteq result[dim]

Satisfies(d, id, filters) ==
    LET row == d.updates[id]
        ua == d.availabilities[id]
    IN  /\ Has(filters, "status") => row.status = filters.status
        /\ Has(filters, "availabilityRing") =>
              \E k \in 1..Len(ua) : ua[k].ring = filters.availabilityRing
        /\ Has(filters, "tags") => Values(filters.tags) \subseteq d.tags[id]
        /\ Has(filters, "productCategories") =>
              Values(filters.productCategories) \subseteq d.categories[id]
        /\ Has(filters, "products") => Values(filters.products) \subseteq d.products[id]
        /\ Has(filters, "modifiedFrom") => ~StrGT(filters.modifiedFrom, row.modified)
        /\ Has(filters, "modifiedTo") => ~StrGT(row.modified, filters.modifiedTo)
        /\ Has(filters, "retirementFrom") =>
              \E k \in 1..Len(ua) :
                  /\ ua[k].ring = "Retirement"
                  /\ ~DateGT(NormalizeMonth(filters.retirementFrom), ua[k].date)
        /\ Has(filters, "retirementTo") =>
              \E k \in 1..Len(ua) :
                  /\ ua[k].ring = "Retirement"
                  /\ ~DateGT(ua[k].date, NormalizeMonth(filters.retirementTo))

Collected == resp.collected \o [k \in 1..Len(resp.results) |-> resp.results[k].id]

\* The tool answered with a page that continues the pages before it.
PageOfWalk ==
    /\ resp.kind = "search"
    /\ resp.via = "tool"
    /\ resp.metadata.offset = resp.pages * resp.metadata.limit

TotalOf(r) == IF r.via = "tool" THEN r.metadata.total ELSE r.metadata.totalResults

\* C17: in every search response hasMore is true exactly when total is larger
\* than offset plus the number of returned results; total is the number of
\* matching records; and at an offset at or beyond total the page is empty and
\* hasMore is false.
C17_HasMore ==
    resp.kind = "search" =>
        /\ resp.metadata.hasMore
              <=> (TotalOf(resp) > resp.metadata.offset + Len(resp.results))
        /\ TotalOf(resp) = Cardinality(Matching(db, resp.query))
        /\ resp.metadata.offset >= TotalOf(resp) =>
              /\ resp.results = << >>
              /\ ~resp.metadata.hasMore

\* A request at offset 3 over two matching records: the page is empty.
C17_Witness ==
    /\ resp.kind = "search"
    /\ resp.via = "tool"
    /\ resp.metadata.offset = 3
    /\ resp.metadata.total = 2
    /\ resp.results = << >>
    /\ ~resp.metadata.hasMore

\* The stored record id has a Retirement entry dated within the months the
\* filters name, each bound taken at the first day of its month.
RetiresWithin(d, id, filters) ==
    /\ Has(filters, "retirementFrom") =>
          \E k \in 1..Len(d.availabilities[id]) :
              /\ d.availabilities[id][k].ring = "Retirement"
              /\ ~DateGT(NormalizeMonth(filters.retirementFrom), d.availabilities[id][k].date)
    /\ Has(filters, "retirementTo") =>
          \E k \in 1..Len(d.availabilities[id]) :
              /\ d.availabilities[id][k].ring = "Retirement"
              /\ ~DateGT(d.availabilities[id][k].date, NormalizeMonth(filters.retirementTo))

\* C18: a tool request that filters on retirementFrom or retirementTo alone
\* (given as YYYY-MM or as a day of that month) returns exactly the stored
\* records with a Retirement date on the bound's side of the first day of the
\* bound's month: retirementFrom 2026-04 returns the record retiring 2026-06
\* and not the one retiring 2026-03.
C18_RetirementByMonth ==
    (/\ FilteredAnswer
     /\ DOMAIN resp.request = {"filters"}
     /\ DOMAIN resp.request.filters \subseteq {"retirementFrom", "retirementTo"}) =>
        {resp.results[k].id : k \in 1..Len(resp.results)}
            = {i \in Ids : db.updates[i] # NoRow /\ RetiresWithin(db, i, resp.request.filters)}

\* The ids of the results of the answer, in page order.
ResultIds == [k \in 1..Len(resp.results) |-> resp.results[k].id]

\* The request asks for the results in retirement-date order.
SortedByRetirement ==
    /\ resp.kind = "search"
    /\ Has(resp.request, "sortBy")
    /\ resp.request.sortBy \in {"retirement:asc", "retirement:desc",
                                "retirementDate:asc", "retirementDate:desc"}

\* C19: in an answer sorted by retirement date, ascending or descending, no
\* record without a Retirement entry comes before a record that has one.
C19_NullsLast ==
    SortedByRetirement =>
        \A i, j \in 1..Len(ResultIds) :
            (i < j /\ RetirementDate(db, ResultIds[i]) = NullDate)
                => RetirementDate(db, ResultIds[j]) = NullDate

\* The sort key the request resolves to: the rank for a keyword search without
\* sortBy, else the column sortBy names.
ResolvedKey(request) ==
    IF ~Has(request, "sortBy")
    THEN (IF HasKeyword(request) THEN "rank" ELSE "modified")
    ELSE CASE request.sortBy \in {"modified:asc", "modified:desc"} -> "modified"
           [] request.sortBy \in {"created:asc", "created:desc"} -> "created"
           [] OTHER -> "retirementDate"

\* Rows a and b have the same value of the sort key.
SameKey(d, request, a, b) ==
    LET ftsQuery == IF HasKeyword(request) THEN SanitizeFtsQuery(request.query) ELSE << >>
    IN  /\ ~TermLess(d, ftsQuery, ResolvedKey(request), a, b)
        /\ ~TermLess(d, ftsQuery, ResolvedKey(request), b, a)

\* C20: results with equal values of the resolved sort key come in modified
\* descending order.
C20_TiebreakModifiedDesc ==
    resp.kind = "search" =>
        \A i, j \in 1..Len(ResultIds) :
            (i < j /\ SameKey(db, resp.request, ResultIds[i], ResultIds[j]))
                => ~StrGT(db.updates[ResultIds[j]].modified,
                          db.updates[ResultIds[i]].modified)

\* The text queries the index is probed with.
TextQueries == {"revis", "generally (available)"}

\* C21: in every committed store state the full-text index holds, for exactly
\* the stored records, their current title and normalized body, and a text
\* search selects exactly the stored records whose current content matches.
C21_IndexLockstep ==
    /\ \A i \in Ids :
          db.fts[i] = IF db.updates[i] = NoRow THEN NoRow
                      ELSE [title |-> db.updates[i].title,
                            description_md |-> db.updates[i].description_md]
    /\ \A q \in TextQueries :
          Matching(db, "query" :> q)
            = {i \in Ids : /\ db.updates[i] # NoRow
                           /\ FtsMatch(db.updates[i], SanitizeFtsQuery(q))}

\* A sync has just overwritten record 1, whose first version matched 'revis'
\* and 'generally', with its second version, which matches neither.
C21_Witness ==
    /\ ret.settled = "resolved"
    /\ ret.result.success
    /\ ret.result.recordsUpdated = 1
    /\ db.updates[1].modified = Long(2)
    /\ Matching(db, "query" :> "revis") = {}
    /\ Matching(db, "query" :> "generally (available)") = {}

\* The page a valid request is due: the first `limit` matching rows from
\* `offset` on.
WholePage ==
    Len(resp.results)
        = Max2(0, Min2(resp.metadata.limit, resp.metadata.total - resp.metadata.offset))

\* The request breaks one of the validation rules: non-object input,
\* non-numeric limit or limit outside 1..100, negative offset, non-string
\* query, unknown sortBy, unknown availability ring, malformed date filter.
FailsValidation(request) ==
    \/ Has(request, "typeof")
    \/ WrongType(request, "limit")
    \/ Has(request, "limit") /\ request.limit \notin 1..100
    \/ Has(request, "offset") /\ request.offset < 0
    \/ WrongType(request, "query")
    \/ Has(request, "sortBy")
          /\ request.sortBy \notin {"modified:desc", "modified:asc", "created:desc",
                                    "created:asc", "retirement:asc", "retirement:desc"}
    \/ /\ Has(request, "filters")
       /\ \/ /\ Has(request.filters, "availabilityRing")
             /\ request.filters.availabilityRing
                   \notin {"General Availability", "Preview", "Private Preview", "Retirement"}
          \/ \E k \in {"modifiedFrom", "modifiedTo"} :
                Has(request.filters, k) /\ request.filters[k] = InvalidDate
          \/ \E k \in {"retirementFrom", "retirementTo"} :
                /\ Has(request.filters, k)
                /\ (request.filters[k].m \notin 1..12 \/ request.filters[k].d \notin 0..31)

Requests(p) == pc[p] = "idle" /\ pc'[p] = "awaitFetch"

\* The records a request with the given floor asks the feed for.
Requested(f, floor) ==
    {i \in Ids : f[i] # NoRec /\ (floor = NoDate \/ f[i].modified > floor.t)}

\* C23: a call whose request goes out is an initial sync exactly when the
\* watermark is the epoch sentinel; its floor is then retentionStartDate
\* (midnight UTC) if one is configured and absent otherwise; else the floor is
\* the watermark, and the fetch yields exactly the published records whose
\* modified instant is strictly after the floor.
C23_ModeSelection ==
    [][\A p \in Procs :
         /\ Requests(p) =>
               /\ frame'[p].isInitialSync <=> (checkpoint.lastSync = INITIAL_SYNC_CHECKPOINT)
               /\ frame'[p].isInitialSync =>
                     \/ /\ frame'[p].retentionStartDate = Undefined
                        /\ frame'[p].modifiedSince = NoDate
                     \/ /\ frame'[p].retentionStartDate # Undefined
                        /\ frame'[p].modifiedSince
                              = ToISOString(frame'[p].retentionStartDate)
               /\ ~frame'[p].isInitialSync =>
                     frame'[p].modifiedSince = checkpoint.lastSync
         /\ Settles(p) =>
               LET allUpdates == FetchAzureUpdates(feed, frame[p].modifiedSince)
               IN  {allUpdates[k].id : k \in 1..Len(allUpdates)}
                     = Requested(feed, frame[p].modifiedSince)]_vars

\* A differential sync is in flight whose floor is a watermark that a record
\* of the feed lies strictly after and another does not.
C23_Witness ==
    \E p \in Procs :
        /\ pc[p] = "awaitFetch"
        /\ ~frame[p].isInitialSync
        /\ frame[p].retentionStartDate # Undefined
        /\ frame[p].modifiedSince = checkpoint.lastSync
        /\ Cardinality(Requested(feed, frame[p].modifiedSince)) = 1
        /\ \A i \in Ids : feed[i] # NoRec

\* Staleness thresholds, in milliseconds.
Thresholds == 0..(MaxNow + 1)

\* C24: isSyncNeeded(h) is true exactly when the checkpoint is missing, or
\* its watermark is the epoch sentinel, or at least h have elapsed on the local
\* clock since its last-sync value; and right after a successful sync that
\* found no record, a check with a positive threshold asks for no sync.
C24_IsSyncNeeded ==
    /\ \A h \in Thresholds :
          /\ IsSyncNeeded(NoCheckpoint, now, h)
          /\ IsSyncNeeded(checkpoint, now, h)
                <=> \/ checkpoint.lastSync = INITIAL_SYNC_CHECKPOINT
                    \/ now - (checkpoint.lastSync.t \div 2) >= h
    /\ (/\ ret.settled = "resolved"
        /\ ret.result.success
        /\ ret.result.recordsProcessed = 0) =>
          \A h \in Thresholds \ {0} : ~IsSyncNeeded(checkpoint, now, h)

\* The first sync of an empty feed has just succeeded: the check that asked
\* for a sync before it asks for none now.
C24_Witness ==
    /\ ret.settled = "resolved"
    /\ ret.result.success
    /\ ret.result.recordsProcessed = 0
    /\ GetUpdateCount(db) = 0
    /\ \A i \in Ids : feed[i] = NoRec
    /\ IsSyncNeeded(SeedCheckpoint, now, 1)
    /\ ~IsSyncNeeded(checkpoint, now, 1)

\* C25: after a successful initial sync made with retentionStartDate R, every
\* published record the store accepts whose max(created, modified) is at or
\* after R (midnight UTC) is in the store.
C25_FloorKeepsRetained ==
    [][\A p \in Procs :
         (/\ Settles(p)
          /\ ret'.settled = "resolved"
          /\ ret'.result.success
          /\ frame[p].isInitialSync
          /\ frame[p].retentionStartDate # Undefined) =>
            \A i \in Ids :
                (/\ feed[i] # NoRec
                 /\ feed[i].modified >= feed[i].created
                 /\ Max2(GetTime(Long(feed[i].modified)), GetTime(Long(feed[i].created)))
                       >= frame[p].retentionStartDate)
                    => db'.updates[i] # NoRow]_vars

\* The clause of the engine's predicate that stands for a filter dimension of
\* the tool.
ClauseFor(dimension) ==
    CASE dimension = "modifiedFrom" -> "dateFrom"
      [] dimension = "modifiedTo" -> "dateTo"
      [] dimension = "retirementFrom" -> "retirementDateFrom"
      [] dimension = "retirementTo" -> "retirementDateTo"
      [] OTHER -> dimension

\* The ordering a sortBy value of the tool names.
OrderingFor(sortBy) ==
    CASE sortBy = "modified:desc" -> OrderTerm("modified", "DESC")
      [] sortBy = "modified:asc" -> OrderTerm("modified", "ASC")
      [] sortBy = "created:desc" -> OrderTerm("created", "DESC")
      [] sortBy = "created:asc" -> OrderTerm("created", "ASC")
      [] sortBy = "retirement:asc" -> OrderTerm("retirementDate", "ASC")
      [] sortBy = "retirement:desc" -> OrderTerm("retirementDate", "DESC")

\* C26: for every request the tool accepts, each filter dimension it forwards
\* has a clause in the predicate the engine builds, and the sortBy value it
\* forwards makes the engine order by the column and direction it names.
C26_FieldsAgree ==
    (resp.kind = "search" /\ resp.via = "tool") =>
        /\ Has(resp.query, "filters") =>
              \A dimension \in DOMAIN resp.query.filters :
                  \E k \in 1..Len(FilterClauses(resp.query)) :
                      FilterClauses(resp.query)[k].kind = ClauseFor(dimension)
        /\ Has(resp.query, "sortBy") =>
              BuildOrderByClause(resp.query, HasKeyword(resp.query))[1]
                  = OrderingFor(resp.query.sortBy)

\* The match expression the claim describes for a query: the words between
\* blanks and FTS5 operator characters, in order.
TermsOf(string) ==
    CASE string = "revis" -> << "revis" >>
      [] string = " :revis* " -> << "revis" >>
      [] string = "generally (available)" -> << "generally", "available" >>
      [] OTHER -> << >>

\* The query string has a character that is not a blank.
NonBlank(string) == string \notin {"", "   "}

\* The tool answered a valid request and the store did not fail.
AnsweredValid ==
    /\ resp # NoResponse
    /\ resp.kind = "error" =>
          (resp.error # "Validation failed" /\ resp.details # {StoreError.msg})

\* C27: a valid request without a query, or with a blank one, is answered as
\* the same request without the query (no text clause); a query with a
\* non-blank character gives a non-empty match expression, the OR of one
\* prefix term per word left after stripping the operator characters, and
\* the page and the total are taken under that one expression.
C27_MatchExpression ==
    AnsweredValid =>
        IF Has(resp.request, "query") /\ NonBlank(resp.request.query)
        THEN /\ SanitizeFtsQuery(resp.request.query) # << >>
             /\ SanitizeFtsQuery(resp.request.query) = TermsOf(resp.request.query)
             /\ resp.kind = "search"
             /\ resp.metadata.total
                   = Cardinality({i \in Ids :
                        /\ i \in Matching(db, [k \in DOMAIN resp.query \ {"query"} |-> resp.query[k]])
                        /\ FtsMatch(db.fts[i], TermsOf(resp.request.query))})
             /\ \A k \in 1..Len(resp.results) :
                   FtsMatch(db.fts[resp.results[k].id], TermsOf(resp.request.query))
        ELSE /\ resp.kind = "search"
             /\ resp.metadata.total
                   = Cardinality(Matching(db, [k \in DOMAIN resp.query \ {"query"} |-> resp.query[k]]))

\* The answer to a request that supplies both retirement bounds: to the tool
\* under the names it accepts, or to the engine under the names it reads.
BothBounds ==
    /\ resp # NoResponse
    /\ resp.kind = "search"
    /\ Has(resp.request, "filters")
    /\ IF resp.via = "tool"
       THEN {"retirementFrom", "retirementTo"} \subseteq DOMAIN resp.request.filters
       ELSE {"retirementDateFrom", "retirementDateTo"} \subseteq DOMAIN resp.request.filters

RetirementFromOf(request) ==
    IF Has(request.filters, "retirementFrom")
    THEN NormalizeMonth(request.filters.retirementFrom)
    ELSE request.filters.retirementDateFrom

RetirementToOf(request) ==
    IF Has(request.filters, "retirementTo")
    THEN NormalizeMonth(request.filters.retirementTo)
    ELSE request.filters.retirementDateTo

\* One Retirement entry of the stored record id is dated within from..to.
RetiresBetween(d, id, from, to) ==
    \E k \in 1..Len(d.availabilities[id]) :
        /\ d.availabilities[id][k].ring = "Retirement"
        /\ ~DateGT(from, d.availabilities[id][k].date)
        /\ ~DateGT(d.availabilities[id][k].date, to)

\* C28: when both retirement bounds are supplied, every returned record has
\* one single Retirement entry dated within the two bounds, also when the
\* record carries several Retirement entries.
C28_RetirementWindow ==
    BothBounds =>
        \A k \in 1..Len(resp.results) :
            RetiresBetween(db, resp.results[k].id,
                           RetirementFromOf(resp.request), RetirementToOf(resp.request))

\* C29: whenever the checkpoint status is in_progress, an invocation of
\* performSync that acquired the guard is still executing (and will set the
\* status to success or failed), also after the process was stopped between
\* guard acquisition and completion and restarted.
C29_GuardHeld ==
    checkpoint.syncStatus = "in_progress" => \E p \in Procs : pc[p] = "awaitFetch"

\* The published record i is one the store accepts and one that passes the
\* retention filter of every call.
Retained(f, i) ==
    /\ f[i] # NoRec
    /\ f[i].modified >= f[i].created
    /\ \A r \in RetentionDates :
          Max2(GetTime(Long(f[i].modified)), GetTime(Long(f[i].created))) >= r

\* C30: in every state, each published record that passes the retention floor
\* and whose modified stamp is at or below the checkpoint watermark is in the
\* store in that version or a newer one.
C30_NoRecordSkipped ==
    \A i \in Ids :
        (Retained(feed, i) /\ Long(feed[i].modified).t <= checkpoint.lastSync.t) =>
            /\ db.updates[i] # NoRow
            /\ db.updates[i].modified.t >= feed[i].modified

====
